---- MODULE Spec2Model ----
(***************************************************************************)
(* The node orchestrator of the-blockchain-pub: the mempool ingress        *)
(* (Node.AddPendingTX), the mining loop (Node.mine) with the goroutines it *)
(* spawns on every tick (Node.minePendingTXs, Mine), the delivery of peer  *)
(* blocks on newSyncedBlocks, Node.addBlock and the adaptive difficulty    *)
(* (Node.CheckDifficulty).  The node has no mutex: every goroutine is a    *)
(* process of its own and the steps below are the points between two       *)
(* accesses to the node's shared fields.                                   *)
(***************************************************************************)
EXTENDS Integers, Sequences, FiniteSets, TLC

(***************************************************************************)
(* Bounds of the model.                                                    *)
(***************************************************************************)
\* blocks added to the block store after startup
MaxNewBlocks == 1
\* goroutines the ticker may have alive at the same time
MaxMiners == 2
\* blocks of the block stores the difficulty check is applied to
MaxDiskBlocks == 4

(***************************************************************************)
(* Program constants.                                                      *)
(***************************************************************************)
DefaultMiningDifficulty == 2
\* the capacity of n.newPendingTXs, make(chan database.SignedTx, 10000),
\* scaled to 4 transactions
newPendingTXsCap == 4
\* database.TxFee, database.BlockNumberToCheckDifficulty and
\* database.MiningAproxTime, scaled: the fee is 1 token, a check every 2
\* blocks, a target of 1 second.
TxFee == 1
BlockNumberToCheckDifficulty == 2
\* one second as a time.Duration (resolution scaled to 1/1000 s)
Second == 1000
MiningAproxTime == 1 * Second
\* number of hex characters of a rendered hash
HashHexLen == 64
\* a digest starts with fewer than ZerosMod zeroes
ZerosMod == 5
\* the values of the uint32 nonce, scaled to 3 bits
NonceSpace == 8

Accounts == {"a", "b"}
MinerAccount == "m"
PeerAccount == "p"
Miners == 1..MaxMiners
NoCancel == 0

(***************************************************************************)
(* Transactions.  Sig is the address recovered from the signature.         *)
(***************************************************************************)
NewSignedTx(from, to, value, nonce, data, sig) ==
    [From |-> from, To |-> to, Value |-> value, Nonce |-> nonce,
     Data |-> data, Sig |-> sig]

NoTx == NewSignedTx("", "", 0, 0, "", "")

T1 == NewSignedTx("a", "b", 1, 1, "", "a")
T2 == NewSignedTx("a", "b", 2, 1, "", "a")
TPoor == NewSignedTx("a", "b", 9, 1, "", "a")
TForged == NewSignedTx("a", "b", 1, 1, "", "b")

\* the transactions submitted to the node
TxUniverse == {T1, T2, TPoor, TForged}

\* the transaction lists of the blocks the peers have mined
PeerTxLists == {<< >>, <<T1>>, <<T2>>}

\* tx.Hash(): the digest of the encoded transaction, signature included
TxHash(tx) == <<tx.From, tx.To, tx.Value, tx.Nonce, tx.Data, tx.Sig>>

\* _, exists := m[txHash.Hex()]
InMap(m, tx) == \E p \in m : TxHash(p) = TxHash(tx)

(***************************************************************************)
(* Hashes and blocks.  A hash is its number of leading hex zeroes and the  *)
(* content it digests.                                                     *)
(***************************************************************************)
ZeroHash == [zeros |-> HashHexLen, id |-> << >>]

NewBlock(parent, number, nonce, time, miner, difficulty, txs) ==
    [Header |-> [Parent |-> parent, Number |-> number, Nonce |-> nonce,
                 Time |-> time, Miner |-> miner, Difficulty |-> difficulty],
     TXs |-> txs]

ZeroBlock == NewBlock(ZeroHash, 0, 0, 0, "", 0, << >>)

\* the leading zeroes of the digest of b: a function of the whole content
\* that takes the value of the header's difficulty at nonce 0 or at nonce 1
LeadingZeros(b) ==
    (b.Header.Difficulty + b.Header.Nonce + (ZerosMod - 1)
       + ((b.Header.Number + b.Header.Time + Len(b.TXs)) % 2)) % ZerosMod

BlockHash(b) ==
    [zeros |-> LeadingZeros(b),
     id |-> <<b.Header.Parent.id, b.Header.Number, b.Header.Nonce,
              b.Header.Time, b.Header.Miner, b.Header.Difficulty, b.TXs>>]

\* IsBlockHashValid asking for at least miningDifficulty leading zeros
IsBlockHashValid_AtLeast(hash, miningDifficulty) == hash.zeros >= miningDifficulty

\* the hex rendering begins with exactly miningDifficulty '0' characters
IsBlockHashValid(hash, miningDifficulty) == hash.zeros = miningDifficulty

\* the nonce a finished proof-of-work search has found
PoWNonce(parent, number, time, miner, difficulty, txs) ==
    CHOOSE n \in 0..(ZerosMod - 1) :
        /\ IsBlockHashValid(BlockHash(NewBlock(parent, number, n, time, miner,
                                               difficulty, txs)), difficulty)
        /\ \A k \in 0..(n - 1) :
              ~IsBlockHashValid(BlockHash(NewBlock(parent, number, k, time,
                                          miner, difficulty, txs)), difficulty)

(***************************************************************************)
(* The state engine (package database).                                    *)
(***************************************************************************)
GenesisBalances == [acc \in Accounts |-> IF acc = "a" THEN 5 ELSE 3]

GenesisState(difficulty) ==
    [Balances |-> GenesisBalances,
     Account2Nonce |-> [acc \in Accounts |-> 0],
     latestBlock |-> ZeroBlock,
     latestBlockHash |-> ZeroHash,
     hasGenesisBlock |-> FALSE,
     miningDifficulty |-> difficulty]

IsReward(tx) == tx.From = tx.To /\ tx.Data = "reward"

\* ApplyTx debiting the value without the fee
ApplyTx_NoFee(tx, s) ==
    IF tx.Sig # tx.From
    THEN [err |-> "bad signature", state |-> s]
    ELSE IF tx.Nonce # s.Account2Nonce[tx.From] + 1
    THEN [err |-> "bad nonce", state |-> s]
    ELSE IF IsReward(tx)
    THEN [err |-> "",
          state |-> [s EXCEPT !.Balances[tx.To] = @ + tx.Value]]
    ELSE IF s.Balances[tx.From] < tx.Value + TxFee
    THEN [err |-> "insufficient funds", state |-> s]
    ELSE [err |-> "",
          state |-> [s EXCEPT
                       !.Balances = [acc \in Accounts |->
                           (IF acc = tx.From THEN s.Balances[acc] - tx.Value
                                             ELSE s.Balances[acc])
                           + (IF acc = tx.To THEN tx.Value ELSE 0)],
                       !.Account2Nonce[tx.From] = tx.Nonce]]

\* ApplyTx(tx, s): the error ("" for none) and the state it leaves
ApplyTx(tx, s) ==
    IF tx.Sig # tx.From
    THEN [err |-> "bad signature", state |-> s]
    ELSE IF tx.Nonce # s.Account2Nonce[tx.From] + 1
    THEN [err |-> "bad nonce", state |-> s]
    ELSE IF IsReward(tx)
    THEN [err |-> "",
          state |-> [s EXCEPT !.Balances[tx.To] = @ + tx.Value]]
    ELSE IF s.Balances[tx.From] < tx.Value + TxFee
    THEN [err |-> "insufficient funds", state |-> s]
    ELSE [err |-> "",
          state |-> [s EXCEPT
                       !.Balances = [acc \in Accounts |->
                           (IF acc = tx.From THEN s.Balances[acc] - (tx.Value + TxFee)
                                             ELSE s.Balances[acc])
                           + (IF acc = tx.To THEN tx.Value ELSE 0)],
                       !.Account2Nonce[tx.From] = tx.Nonce]]

RECURSIVE ApplyTXs(_, _)
ApplyTXs(txs, s) ==
    IF txs = << >> THEN [err |-> "", state |-> s]
    ELSE LET r == ApplyTx(Head(txs), s) IN
         IF r.err # "" THEN [err |-> r.err, state |-> s]
         ELSE ApplyTXs(Tail(txs), r.state)

NextBlockNumber(s) == s.latestBlock.Header.Number + 1

\* State.AddBlock without the check of the parent and of the number
StateAddBlock_NoLinkage(s, db, block) ==
    LET hash == BlockHash(block)
        r == ApplyTXs(block.TXs, s)
        fail(e) == [err |-> e, state |-> s, db |-> db]
    IN  IF ~IsBlockHashValid(hash, s.miningDifficulty)
        THEN fail("bad pow")
        ELSE IF block.Header.Time <= s.latestBlock.Header.Time
        THEN fail("non monotone time")
        ELSE IF r.err # ""
        THEN fail(r.err)
        ELSE [err |-> "",
              state |-> [r.state EXCEPT !.latestBlock = block,
                                        !.latestBlockHash = hash,
                                        !.hasGenesisBlock = TRUE],
              db |-> Append(db, [Key |-> hash, Value |-> block])]

\* State.AddBlock: the error, the state and the block store it leaves
StateAddBlock(s, db, block) ==
    LET hash == BlockHash(block)
        r == ApplyTXs(block.TXs, s)
        fail(e) == [err |-> e, state |-> s, db |-> db]
    IN  IF s.hasGenesisBlock /\ block.Header.Parent # s.latestBlockHash
        THEN fail("bad parent")
        ELSE IF s.hasGenesisBlock /\ block.Header.Number # NextBlockNumber(s)
        THEN fail("bad number")
        ELSE IF ~IsBlockHashValid(hash, s.miningDifficulty)
        THEN fail("bad pow")
        ELSE IF block.Header.Time <= s.latestBlock.Header.Time
        THEN fail("non monotone time")
        ELSE IF r.err # ""
        THEN fail(r.err)
        ELSE [err |-> "",
              state |-> [r.state EXCEPT !.latestBlock = block,
                                        !.latestBlockHash = hash,
                                        !.hasGenesisBlock = TRUE],
              db |-> Append(db, [Key |-> hash, Value |-> block])]

\* State.ChangeMiningDifficulty
StateChangeMiningDifficulty(s, newDifficulty) ==
    [s EXCEPT !.miningDifficulty = newDifficulty]

\* State.Copy
StateCopy(s) == s

Min(x, y) == IF x < y THEN x ELSE y

LastN(seq, n) == SubSeq(seq, Len(seq) - Min(n, Len(seq)) + 1, Len(seq))

\* database.GetBlocksBefore: the n records strictly before the record whose
\* key is hash, the last n records of the log for the zero hash
GetBlocksBefore(hash, n, db) ==
    IF hash = ZeroHash \/ ~\E i \in 1..Len(db) : db[i].Key = hash
    THEN LastN(db, n)
    ELSE LET pos == CHOOSE i \in 1..Len(db) : db[i].Key = hash
         IN  LastN(SubSeq(db, 1, pos - 1), n)

\* NewStateFromDisk: genesis, then every persisted block replayed
RECURSIVE Replay(_, _, _)
Replay(s, db, blocks) ==
    IF blocks = << >> THEN [state |-> s, db |-> db]
    ELSE LET r == StateAddBlock(s, db, Head(blocks))
         IN  Replay(r.state, r.db, Tail(blocks))

(***************************************************************************)
(* Node: the difficulty check.                                             *)
(***************************************************************************)
GetAproximateBlockResolutionTime(s, db) ==
    LET blocks == GetBlocksBefore(s.latestBlockHash, BlockNumberToCheckDifficulty, db)
    IN  IF Len(blocks) = 0 THEN 0
        ELSE ((blocks[Len(blocks)].Value.Header.Time
                 - blocks[1].Value.Header.Time) * Second) \div Len(blocks)

\* GetNewDifficulty with the two comparisons exchanged
GetNewDifficulty_Swapped(md, s, db) ==
    LET average == GetAproximateBlockResolutionTime(s, db)
    IN  IF md = 0 THEN [err |-> "mining difficulty is 0", val |-> 0]
        ELSE IF average = 0 THEN [err |-> "", val |-> md]
        ELSE IF average > MiningAproxTime THEN [err |-> "", val |-> md + 1]
        ELSE IF average < MiningAproxTime THEN [err |-> "", val |-> md - 1]
        ELSE [err |-> "", val |-> md]

\* GetNewDifficulty: the error and the value returned
GetNewDifficulty(md, s, db) ==
    LET average == GetAproximateBlockResolutionTime(s, db)
    IN  IF md = 0 THEN [err |-> "mining difficulty is 0", val |-> 0]
        ELSE IF average = 0 THEN [err |-> "", val |-> md]
        ELSE IF average < MiningAproxTime THEN [err |-> "", val |-> md + 1]
        ELSE IF average > MiningAproxTime THEN [err |-> "", val |-> md - 1]
        ELSE [err |-> "", val |-> md]

\* CheckDifficulty assigning n.miningDifficulty without the call of
\* State.ChangeMiningDifficulty
CheckDifficulty_NodeOnly(md, s, db) ==
    LET r == GetNewDifficulty(md, s, db)
    IN  IF s.latestBlock.Header.Number % BlockNumberToCheckDifficulty = 0
           /\ r.err = ""
        THEN [md |-> r.val, state |-> s]
        ELSE [md |-> md, state |-> s]

\* CheckDifficulty without the test of the block number
CheckDifficulty_AnyNumber(md, s, db) ==
    LET r == GetNewDifficulty(md, s, db)
    IN  IF r.err = ""
        THEN [md |-> r.val, state |-> StateChangeMiningDifficulty(s, r.val)]
        ELSE [md |-> md, state |-> s]

\* CheckDifficulty, with ChangeMiningDifficulty: the node's difficulty and
\* the state it leaves
CheckDifficulty(md, s, db) ==
    LET r == GetNewDifficulty(md, s, db)
    IN  IF s.latestBlock.Header.Number % BlockNumberToCheckDifficulty = 0
           /\ r.err = ""
        THEN [md |-> r.val, state |-> StateChangeMiningDifficulty(s, r.val)]
        ELSE [md |-> md, state |-> s]

\* Node.addBlock resetting the pending state to the state it was called on
NodeAddBlock_StaleCopy(md, s, db, block) ==
    LET r == StateAddBlock(s, db, block)
        c == CheckDifficulty(md, r.state, r.db)
    IN  IF r.err # ""
        THEN [err |-> r.err, md |-> md, state |-> s, db |-> db,
              pendingState |-> StateCopy(s)]
        ELSE [err |-> "", md |-> c.md, state |-> c.state, db |-> r.db,
              pendingState |-> StateCopy(s)]

\* Node.addBlock: State.AddBlock, the difficulty check when it succeeded,
\* and the deferred reset of the pending state in both cases
NodeAddBlock(md, s, db, block) ==
    LET r == StateAddBlock(s, db, block)
        c == CheckDifficulty(md, r.state, r.db)
    IN  IF r.err # ""
        THEN [err |-> r.err, md |-> md, state |-> s, db |-> db,
              pendingState |-> StateCopy(s)]
        ELSE [err |-> "", md |-> c.md, state |-> c.state, db |-> r.db,
              pendingState |-> StateCopy(c.state)]

(***************************************************************************)
(* Node: the mempool.                                                      *)
(***************************************************************************)
\* HasPendingSameNonce looking for the same transaction instead of the same
\* sender and nonce
HasPendingSameNonce_ByHash(tx, pending) ==
    \E p \in pending : TxHash(p) = TxHash(tx)

\* the loop of AddPendingTX over the pending transactions
HasPendingSameNonce(tx, pending) ==
    \E p \in pending : tx.From = p.From /\ p.Nonce = tx.Nonce

\* ShouldAccept without the test of the archived map
ShouldAccept_PendingOnly(isAlreadyPending, isArchived) ==
    ~isAlreadyPending

\* if !isAlreadyPending && !isArchived
ShouldAccept(isAlreadyPending, isArchived) ==
    ~isAlreadyPending /\ ~isArchived

\* InsertPending losing the transaction
InsertPending_Lost(pending, tx) == pending

\* n.pendingTXs[txHash.Hex()] = tx
InsertPending(pending, tx) ==
    {q \in pending : TxHash(q) # TxHash(tx)} \cup {tx}

\* getPendingTXsAsArray without the sort: the map in iteration order
PendingTXsAsArrays_Unsorted(pending) ==
    LET n == Cardinality(pending)
    IN  {s \in [1..n -> pending] : \A i, j \in 1..n : i # j => s[i] # s[j]}

\* getPendingTXsAsArray: the map in iteration order, sorted by nonce with
\* an unstable sort: every arrangement in which the nonces do not decrease
PendingTXsAsArrays(pending) ==
    LET n == Cardinality(pending)
    IN  {s \in [1..n -> pending] :
            /\ \A i, j \in 1..n : i # j => s[i] # s[j]
            /\ \A i, j \in 1..n : i < j => ~(s[j].Nonce < s[i].Nonce)}

RECURSIVE RemoveMined_KeepPending(_, _, _)
\* removeMinedPendingTXs archiving a transaction without deleting it from
\* the pending map
RemoveMined_KeepPending(txs, pending, archived) ==
    IF txs = << >> THEN [pending |-> pending, archived |-> archived]
    ELSE LET tx == Head(txs)
         IN  IF InMap(pending, tx)
             THEN RemoveMined_KeepPending(Tail(txs), pending,
                              {a \in archived : TxHash(a) # TxHash(tx)} \cup {tx})
             ELSE RemoveMined_KeepPending(Tail(txs), pending, archived)

RECURSIVE RemoveMined(_, _, _)
\* removeMinedPendingTXs: the pending and the archived maps it leaves
RemoveMined(txs, pending, archived) ==
    IF txs = << >> THEN [pending |-> pending, archived |-> archived]
    ELSE LET tx == Head(txs)
         IN  IF InMap(pending, tx)
             THEN RemoveMined(Tail(txs),
                              {p \in pending : TxHash(p) # TxHash(tx)},
                              {a \in archived : TxHash(a) # TxHash(tx)} \cup {tx})
             ELSE RemoveMined(Tail(txs), pending, archived)

(***************************************************************************)
(* The state of the node and of its goroutines.                            *)
(***************************************************************************)
VARIABLES
    state,              \* n.state
    blockDb,            \* block.db
    pendingState,       \* n.pendingState
    pendingTXs,         \* n.pendingTXs
    archivedTXs,        \* n.archivedTXs
    newPendingTXs,      \* number of transactions buffered in n.newPendingTXs
    miningDifficulty,   \* n.miningDifficulty
    isMining,           \* n.isMining
    stopCurrentMining,  \* the context the shared cancel function cancels
    cancelled,          \* the mining contexts that are done
    miner,              \* the goroutines spawned by the ticker
    loop,               \* the goroutine of Node.mine
    sync,               \* the goroutine of Node.sync
    h,                  \* the goroutine serving AddPendingTX
    replayed,           \* number of blocks NewStateFromDisk replayed
    crashed,            \* a goroutine panicked
    knownPeers,         \* n.knownPeers
    peerCall,           \* the call of AddPeer or RemovePeer that returned last
    genesis,            \* the genesis file and what loadGenesis returned
    ctxDone             \* the context given to Node.Run is done

vars == <<state, blockDb, pendingState, pendingTXs, archivedTXs, newPendingTXs,
          miningDifficulty, isMining, stopCurrentMining, cancelled, miner,
          loop, sync, h, replayed, crashed, knownPeers, peerCall, genesis,
          ctxDone>>

\* what the mempool, the miner and the state engine leave alone
otherVars == <<knownPeers, peerCall, genesis, ctxDone>>

nodeVars == <<state, blockDb, pendingState, pendingTXs, archivedTXs,
              newPendingTXs, miningDifficulty, isMining>>

PendingBlock(parent, number, time, account, difficulty, txs) ==
    [parent |-> parent, number |-> number, time |-> time, miner |-> account,
     difficulty |-> difficulty, txs |-> txs]

ZeroPendingBlock == PendingBlock(ZeroHash, 0, 0, "", 0, << >>)

IdleMiner ==
    [pc |-> "idle", pb |-> ZeroPendingBlock, attempt |-> 0,
     block |-> ZeroBlock, hash |-> ZeroHash]

IdleLoop == [pc |-> "select", block |-> ZeroBlock]

IdleSync == [pc |-> "idle", block |-> ZeroBlock]

IdleHandler ==
    [pc |-> "idle", tx |-> NoTx, isAlreadyPending |-> FALSE,
     isArchived |-> FALSE, inserted |-> FALSE, ret |-> ""]

(***************************************************************************)
(* The peer table.                                                         *)
(***************************************************************************)
NewPeerNode(ip, port, isBootstrap, acc, connected, version) ==
    [IP |-> ip, Port |-> port, IsBootstrap |-> isBootstrap, Account |-> acc,
     NodeVersion |-> version, connected |-> connected]

\* TcpAddress made of the IP alone
TcpAddress_NoPort(pn) == pn.IP

\* fmt.Sprintf("%s:%d", pn.IP, pn.Port)
TcpAddress(pn) == pn.IP \o ":" \o ToString(pn.Port)

\* the ip and port query parameters of /node/peer, the ip of a peer being
\* any string
PeerIPs == {"h", "h:8", "o"}
PeerPortsRaw == {"0", "8", "x"}
PeerPorts == {0, 8}

\* strconv.ParseUint(peerPortRaw, 10, 32) on the ports above
ParseUint(raw) ==
    IF raw = "0" THEN [err |-> "", val |-> 0]
    ELSE IF raw = "8" THEN [err |-> "", val |-> 8]
    ELSE [err |-> "invalid syntax", val |-> 0]

\* the node's own PeerNode and its bootstrap peer
OwnInfo == NewPeerNode("h", 8, FALSE, MinerAccount, TRUE, "v")
Bootstrap == NewPeerNode("o", 8, TRUE, PeerAccount, FALSE, "v")

PeerUniverse ==
    {NewPeerNode(ip, port, FALSE, acc, TRUE, "v") :
        ip \in PeerIPs, port \in PeerPorts, acc \in {MinerAccount, PeerAccount}}
      \cup {Bootstrap}

NoPeers == [k \in {} |-> Bootstrap]

\* n.knownPeers[peer.TcpAddress()] = peer
AddPeer(peers, peer) ==
    [k \in DOMAIN peers \cup {TcpAddress(peer)} |->
        IF k = TcpAddress(peer) THEN peer ELSE peers[k]]

\* delete(n.knownPeers, peer.TcpAddress())
RemovePeer(peers, peer) ==
    [k \in DOMAIN peers \ {TcpAddress(peer)} |-> peers[k]]

IsKnownPeer(peers, info, peer) ==
    IF peer.IP = info.IP /\ peer.Port = info.Port THEN TRUE
    ELSE TcpAddress(peer) \in DOMAIN peers

IdlePeerCall == [op |-> "", peer |-> Bootstrap, err |-> ""]

(***************************************************************************)
(* The genesis file.                                                       *)
(***************************************************************************)
\* json balances: a number that is negative, zero or positive
GenesisAmounts == {-1, 0, 3}

\* the documents: unreadable or readable, malformed or a JSON object, the
\* object without "balances" or with balances of some accounts
GenesisBalancesInDoc ==
    UNION {[accs -> GenesisAmounts] : accs \in SUBSET Accounts}

GenesisDocs ==
    [readable : BOOLEAN, wellFormed : BOOLEAN, hasBalances : BOOLEAN,
     balances : GenesisBalancesInDoc]

\* Genesis{}: the Balances map is nil
ZeroGenesis == [Balances |-> [k \in {} |-> 0], isNil |-> TRUE]

\* json.Unmarshal(content, &loadedGenesis) with Balances of type
\* map[common.Address]uint: nil for none, otherwise the error
JsonUnmarshal(doc) ==
    IF ~doc.wellFormed THEN "invalid character"
    ELSE IF doc.hasBalances /\ \E a \in DOMAIN doc.balances : doc.balances[a] < 0
    THEN "cannot unmarshal number into Go struct field of type uint"
    ELSE ""

loadGenesis(doc) ==
    IF ~doc.readable THEN [genesis |-> ZeroGenesis, err |-> "no such file"]
    ELSE IF JsonUnmarshal(doc) # ""
    THEN [genesis |-> ZeroGenesis, err |-> JsonUnmarshal(doc)]
    ELSE [genesis |-> IF doc.hasBalances
                      THEN [Balances |-> doc.balances, isNil |-> FALSE]
                      ELSE ZeroGenesis,
          err |-> ""]

\* the genesis file writeGenesisToDisk leaves, scaled to the accounts
genesisJson ==
    [readable |-> TRUE, wellFormed |-> TRUE, hasBalances |-> TRUE,
     balances |-> GenesisBalances]

\* New and Run: the bootstrap peer is known, the genesis file is the one
\* the node wrote and has been loaded, the context is not done
InitOther ==
    /\ knownPeers = AddPeer(NoPeers, Bootstrap)
    /\ peerCall = IdlePeerCall
    /\ genesis = [pc |-> "loaded", doc |-> genesisJson,
                  ret |-> loadGenesis(genesisJson)]
    /\ ctxDone = FALSE

(***************************************************************************)
(* The block stores a node can be started on: empty, or three or four      *)
(* empty blocks mined at the configured difficulty.                        *)
(***************************************************************************)
ConfiguredDifficulties == {1, DefaultMiningDifficulty}

DiskTimes == {<< >>, <<1, 2, 3>>, <<1, 2, 4>>, <<1, 2, 5>>, <<1, 2, 3, 4>>}

RECURSIVE DiskBlocks(_, _, _, _)
DiskBlocks(times, parent, number, difficulty) ==
    IF times = << >> THEN << >>
    ELSE LET b == NewBlock(parent, number,
                           PoWNonce(parent, number, Head(times), PeerAccount,
                                    difficulty, << >>),
                           Head(times), PeerAccount, difficulty, << >>)
         IN  <<b>> \o DiskBlocks(Tail(times), BlockHash(b), number + 1, difficulty)

NewStateFromDisk(times, difficulty) ==
    Replay(GenesisState(difficulty), << >>,
           DiskBlocks(times, ZeroHash, 1, difficulty))

\* New and Run, up to the start of the goroutines, for a configured
\* difficulty and the times of the blocks on disk
InitNode(difficulty, times) ==
        LET disk == NewStateFromDisk(times, difficulty)
            c == CheckDifficulty(difficulty, disk.state, disk.db)
        IN  /\ state = c.state
            /\ blockDb = disk.db
            /\ pendingState = StateCopy(disk.state)
            /\ miningDifficulty = c.md
            /\ pendingTXs = {}
            /\ archivedTXs = {}
            /\ newPendingTXs = 0
            /\ isMining = FALSE
            /\ stopCurrentMining = NoCancel
            /\ cancelled = {}
            /\ miner = [g \in Miners |-> IdleMiner]
            /\ loop = IdleLoop
            /\ sync = IdleSync
            /\ h = IdleHandler
            /\ replayed = Len(disk.db)
            /\ crashed = FALSE
            /\ InitOther

\* a first start with the default difficulty
Init == InitNode(DefaultMiningDifficulty, << >>)

\* a start on any of the block stores with any configured difficulty
InitAnyDisk ==
    \E difficulty \in ConfiguredDifficulties, times \in DiskTimes :
        InitNode(difficulty, times)

(***************************************************************************)
(* AddPendingTX, called for an HTTP request or for a transaction a peer    *)
(* forwards.  h records the call that returned last, or the call that is   *)
(* blocked on the channel.                                                 *)
(***************************************************************************)
AddPendingTX_Call(tx) ==
    /\ ~crashed
    /\ h.pc = "idle"
    /\ LET p == InMap(pendingTXs, tx)
           a == InMap(archivedTXs, tx)
           r == ApplyTx(tx, pendingState)
           call == [pc |-> "idle", tx |-> tx, isAlreadyPending |-> p,
                    isArchived |-> a, inserted |-> FALSE, ret |-> "nil"]
       IN  IF HasPendingSameNonce(tx, pendingTXs)
           THEN /\ h' = [call EXCEPT !.ret = "TX with same nonce already pending"]
                /\ UNCHANGED <<pendingState, pendingTXs, newPendingTXs>>
           ELSE IF ~ShouldAccept(p, a)
           THEN /\ h' = call
                /\ UNCHANGED <<pendingState, pendingTXs, newPendingTXs>>
           ELSE IF r.err # ""
           THEN /\ h' = [call EXCEPT !.ret = r.err]
                /\ UNCHANGED <<pendingState, pendingTXs, newPendingTXs>>
           ELSE /\ pendingState' = r.state
                /\ pendingTXs' = InsertPending(pendingTXs, tx)
                /\ IF newPendingTXs < newPendingTXsCap
                   THEN /\ newPendingTXs' = newPendingTXs + 1
                        /\ h' = [call EXCEPT !.inserted = TRUE]
                   ELSE /\ UNCHANGED newPendingTXs
                        /\ h' = [call EXCEPT !.inserted = TRUE, !.pc = "send",
                                             !.ret = ""]
    /\ UNCHANGED <<state, blockDb, archivedTXs, miningDifficulty, isMining,
                   stopCurrentMining, cancelled, miner, loop, sync, replayed,
                   crashed>>
    /\ UNCHANGED otherVars

(***************************************************************************)
(* Node.mine: the select loop.                                             *)
(***************************************************************************)
\* case block := <-n.newSyncedBlocks, the channel being unbuffered, and
\* the test of n.IsMining() on the block received
ReceiveSyncedBlock ==
    /\ ~crashed
    /\ loop.pc = "select"
    /\ sync.pc = "send"
    /\ loop' = IF isMining THEN [pc |-> "remove", block |-> sync.block]
                           ELSE IdleLoop
    /\ sync' = IdleSync
    /\ UNCHANGED <<nodeVars, stopCurrentMining, cancelled, miner, h, replayed,
                   crashed>>
    /\ UNCHANGED otherVars

\* n.removeMinedPendingTXs(block)
LoopRemoveMined ==
    /\ ~crashed
    /\ loop.pc = "remove"
    /\ LET r == RemoveMined(loop.block.TXs, pendingTXs, archivedTXs)
       IN  /\ pendingTXs' = r.pending
           /\ archivedTXs' = r.archived
    /\ loop' = [loop EXCEPT !.pc = "stop"]
    /\ UNCHANGED <<state, blockDb, pendingState, newPendingTXs,
                   miningDifficulty, isMining, stopCurrentMining, cancelled,
                   miner, sync, h, replayed, crashed>>
    /\ UNCHANGED otherVars

\* stopCurrentMining(): a nil function value panics
LoopStopCurrentMining ==
    /\ ~crashed
    /\ loop.pc = "stop"
    /\ IF stopCurrentMining = NoCancel
       THEN /\ crashed' = TRUE
            /\ UNCHANGED cancelled
       ELSE /\ cancelled' = cancelled \cup {stopCurrentMining}
            /\ UNCHANGED crashed
    /\ loop' = IdleLoop
    /\ UNCHANGED <<nodeVars, stopCurrentMining, miner, sync, h, replayed>>
    /\ UNCHANGED otherVars

(***************************************************************************)
(* The goroutine of a tick.                                                *)
(***************************************************************************)
\* case <-ticker.C: the goroutine of an earlier tick reaches
\* if !n.IsMining() and finds the flag clear; one that finds it set ends
\* without a trace
TickIsMining(g) ==
    /\ ~crashed
    /\ Len(blockDb) < replayed + MaxNewBlocks
    /\ loop.pc # "stopped"
    /\ miner[g].pc = "idle"
    /\ \A k \in Miners : k < g => miner[k].pc # "idle"
    /\ ~isMining
    /\ miner' = [miner EXCEPT ![g].pc = "set"]
    /\ UNCHANGED <<nodeVars, stopCurrentMining, cancelled, loop, sync, h,
                   replayed, crashed>>
    /\ UNCHANGED otherVars

\* n.setMining(true)
MinerSetMining(g) ==
    /\ ~crashed
    /\ miner[g].pc = "set"
    /\ isMining' = TRUE
    /\ miner' = [miner EXCEPT ![g].pc = "ctx"]
    /\ UNCHANGED <<state, blockDb, pendingState, pendingTXs, archivedTXs,
                   newPendingTXs, miningDifficulty, stopCurrentMining,
                   cancelled, loop, sync, h, replayed, crashed>>
    /\ UNCHANGED otherVars

\* miningCtx, stopCurrentMining = context.WithCancel(ctx)
MinerWithCancel(g) ==
    /\ ~crashed
    /\ miner[g].pc = "ctx"
    /\ stopCurrentMining' = g
    /\ cancelled' = cancelled \ {g}
    /\ miner' = [miner EXCEPT ![g].pc = "pending"]
    /\ UNCHANGED <<nodeVars, loop, sync, h, replayed, crashed>>
    /\ UNCHANGED otherVars

\* time.Now().Unix(): one of the two seconds after the latest block; two
\* attempts racing for the same parent may carry either time, the later
\* one as well as the earlier one
Now(s) == {s.latestBlock.Header.Time + 1, s.latestBlock.Header.Time + 2}

\* minePendingTXs: NewPendingBlock on the node's fields
MinerNewPendingBlock(g) ==
    /\ ~crashed
    /\ miner[g].pc = "pending"
    /\ \E txs \in PendingTXsAsArrays(pendingTXs), now \in Now(state) :
          miner' = [miner EXCEPT ![g].pc = "mine",
                       ![g].pb = PendingBlock(state.latestBlockHash,
                                              NextBlockNumber(state), now,
                                              MinerAccount, miningDifficulty,
                                              txs)]
    /\ UNCHANGED <<nodeVars, stopCurrentMining, cancelled, loop, sync, h,
                   replayed, crashed>>
    /\ UNCHANGED otherVars

\* Mine without the select on ctx.Done()
MineIteration_IgnoreCancel(m, isDone) ==
    LET pb == m.pb
        block == NewBlock(pb.parent, pb.number, m.attempt % NonceSpace,
                          pb.time, pb.miner, pb.difficulty, pb.txs)
    IN  IF IsBlockHashValid(m.hash, pb.difficulty)
        THEN [m EXCEPT !.pc = "mined"]
        ELSE [m EXCEPT !.attempt = (m.attempt + 1) % NonceSpace,
                       !.block = block,
                       !.hash = BlockHash(block)]

\* Mine: one evaluation of the loop condition and, when the search goes on,
\* the select on ctx.Done() and one nonce.  "mined" is the return of the
\* block with a nil error, "done" the return of Block{} with the
\* cancellation error, after which minePendingTXs returns at once.
MineIteration(m, isDone) ==
    LET pb == m.pb
        block == NewBlock(pb.parent, pb.number, m.attempt % NonceSpace,
                          pb.time, pb.miner, pb.difficulty, pb.txs)
    IN  IF IsBlockHashValid(m.hash, pb.difficulty)
        THEN [m EXCEPT !.pc = "mined"]
        ELSE IF isDone
        THEN [IdleMiner EXCEPT !.pc = "done"]
        ELSE [m EXCEPT !.attempt = (m.attempt + 1) % NonceSpace,
                       !.block = block,
                       !.hash = BlockHash(block)]

\* <-miningCtx.Done(): the context of the attempt has been cancelled, or
\* the context it was derived from is done
IsDone(g) == g \in cancelled \/ ctxDone

MinerMine(g) ==
    /\ ~crashed
    /\ miner[g].pc = "mine"
    /\ miner' = [miner EXCEPT ![g] = MineIteration(miner[g], IsDone(g))]
    /\ UNCHANGED <<nodeVars, stopCurrentMining, cancelled, loop, sync, h,
                   replayed, crashed>>
    /\ UNCHANGED otherVars

\* n.removeMinedPendingTXs(minedBlock)
MinerRemoveMined(g) ==
    /\ ~crashed
    /\ miner[g].pc = "mined"
    /\ LET r == RemoveMined(miner[g].block.TXs, pendingTXs, archivedTXs)
       IN  /\ pendingTXs' = r.pending
           /\ archivedTXs' = r.archived
    /\ miner' = [miner EXCEPT ![g].pc = "add"]
    /\ UNCHANGED <<state, blockDb, pendingState, newPendingTXs,
                   miningDifficulty, isMining, stopCurrentMining, cancelled,
                   loop, sync, h, replayed, crashed>>
    /\ UNCHANGED otherVars

\* n.addBlock(minedBlock)
MinerAddBlock(g) ==
    /\ ~crashed
    /\ miner[g].pc = "add"
    /\ LET r == NodeAddBlock(miningDifficulty, state, blockDb, miner[g].block)
       IN  /\ state' = r.state
           /\ blockDb' = r.db
           /\ miningDifficulty' = r.md
           /\ pendingState' = r.pendingState
    /\ miner' = [miner EXCEPT ![g] = [IdleMiner EXCEPT !.pc = "done"]]
    /\ UNCHANGED <<pendingTXs, archivedTXs, newPendingTXs, isMining,
                   stopCurrentMining, cancelled, loop, sync, h, replayed,
                   crashed>>
    /\ UNCHANGED otherVars

\* n.setMining(false)
MinerClearMining(g) ==
    /\ ~crashed
    /\ miner[g].pc = "done"
    /\ isMining' = FALSE
    /\ miner' = [miner EXCEPT ![g] = IdleMiner]
    /\ UNCHANGED <<state, blockDb, pendingState, pendingTXs, archivedTXs,
                   newPendingTXs, miningDifficulty, stopCurrentMining,
                   cancelled, loop, sync, h, replayed, crashed>>
    /\ UNCHANGED otherVars

(***************************************************************************)
(* Node.sync: a block fetched from a peer is added, then handed to the     *)
(* mining loop.                                                            *)
(***************************************************************************)
\* the blocks a peer can have mined on top of the node's latest block
PeerBlocks(s) ==
    IF s.miningDifficulty >= ZerosMod THEN {}
    ELSE {NewBlock(s.latestBlockHash, NextBlockNumber(s),
                   PoWNonce(s.latestBlockHash, NextBlockNumber(s), time,
                            PeerAccount, s.miningDifficulty, txs),
                   time, PeerAccount, s.miningDifficulty, txs) :
             time \in Now(s), txs \in PeerTxLists}

SyncAddBlock(block) ==
    /\ ~crashed
    /\ sync.pc = "idle"
    /\ Len(blockDb) < replayed + MaxNewBlocks
    /\ LET r == NodeAddBlock(miningDifficulty, state, blockDb, block)
       IN  /\ state' = r.state
           /\ blockDb' = r.db
           /\ miningDifficulty' = r.md
           /\ pendingState' = r.pendingState
           /\ sync' = IF r.err = "" THEN [pc |-> "send", block |-> block]
                      ELSE IdleSync
    /\ UNCHANGED <<pendingTXs, archivedTXs, newPendingTXs, isMining,
                   stopCurrentMining, cancelled, miner, loop, h, replayed,
                   crashed>>
    /\ UNCHANGED otherVars

AddPendingTX == \E tx \in TxUniverse : AddPendingTX_Call(tx)
Tick == TickIsMining(1)
MinerSet == MinerSetMining(1)
MinerCtx == MinerWithCancel(1)
MinerPending == MinerNewPendingBlock(1)
MinerSearch == MinerMine(1)
MinerRemove == MinerRemoveMined(1)
MinerAdd == MinerAddBlock(1)
MinerClear == MinerClearMining(1)
SyncBlock == \E block \in PeerBlocks(state) : SyncAddBlock(block)

Next ==
    \/ AddPendingTX
    \/ Tick
    \/ ReceiveSyncedBlock
    \/ LoopRemoveMined
    \/ LoopStopCurrentMining
    \/ MinerSet
    \/ MinerCtx
    \/ MinerPending
    \/ MinerSearch
    \/ MinerRemove
    \/ MinerAdd
    \/ MinerClear
    \/ SyncBlock

Spec == Init /\ [][Next]_vars

\* the node between startup and the next difficulty checks, no transaction
\* being submitted to it
NextDifficulty ==
    \/ Tick
    \/ ReceiveSyncedBlock
    \/ LoopRemoveMined
    \/ LoopStopCurrentMining
    \/ MinerSet
    \/ MinerCtx
    \/ MinerPending
    \/ MinerSearch
    \/ MinerRemove
    \/ MinerAdd
    \/ MinerClear
    \/ SyncBlock

SpecDifficulty == InitAnyDisk /\ [][NextDifficulty]_vars

(***************************************************************************)
(* Mine as a function of its pending block and of the moment its context   *)
(* is cancelled: the goroutine starts in Mine, nothing else runs.          *)
(***************************************************************************)
\* ZerosMod is a difficulty no nonce satisfies: the search goes through
\* every value of the counter and starts over
MineDifficulties == {0, 1, DefaultMiningDifficulty, ZerosMod, HashHexLen}

MineInputs ==
    {PendingBlock(ZeroHash, 1, time, MinerAccount, difficulty, txs) :
        time \in {1, 2}, difficulty \in MineDifficulties, txs \in PeerTxLists}

InitMine ==
    /\ state = GenesisState(DefaultMiningDifficulty)
    /\ blockDb = << >>
    /\ pendingState = StateCopy(state)
    /\ miningDifficulty = DefaultMiningDifficulty
    /\ pendingTXs = {}
    /\ archivedTXs = {}
    /\ newPendingTXs = 0
    /\ isMining = TRUE
    /\ stopCurrentMining = 1
    /\ cancelled \in SUBSET {1}
    /\ \E pb \in MineInputs :
          miner = [g \in Miners |->
                     IF g = 1 THEN [IdleMiner EXCEPT !.pc = "mine", !.pb = pb]
                     ELSE IdleMiner]
    /\ loop = IdleLoop
    /\ sync = IdleSync
    /\ h = IdleHandler
    /\ replayed = 0
    /\ crashed = FALSE
    /\ InitOther

\* the caller cancels the context of the search
CtxCancel ==
    /\ miner[1].pc = "mine"
    /\ 1 \notin cancelled
    /\ cancelled' = cancelled \cup {1}
    /\ UNCHANGED <<nodeVars, stopCurrentMining, miner, loop, sync, h,
                   replayed, crashed>>
    /\ UNCHANGED otherVars

NextMine ==
    \/ MinerSearch
    \/ CtxCancel

SpecMine == InitMine /\ [][NextMine]_vars

(***************************************************************************)
(* CheckDifficulty as a function of the node's difficulty and of the block *)
(* store: Node.Run has loaded the state and is about to call it.           *)
(***************************************************************************)
CheckDifficulties == 0..3

\* the seconds between two consecutive blocks of a block store
DiskGaps == 1..3

RECURSIVE TimesFrom(_, _)
\* the header times that start at time first and go on with the gaps
TimesFrom(first, gaps) ==
    IF gaps = << >> THEN <<first>>
    ELSE <<first>> \o TimesFrom(first + Head(gaps), Tail(gaps))

\* no block, or one to MaxDiskBlocks blocks
CheckDiskTimes ==
    {<< >>} \cup
    UNION {{TimesFrom(1, gaps) : gaps \in [1..n -> DiskGaps]} :
              n \in 0..(MaxDiskBlocks - 1)}

InitCheck ==
    \E difficulty \in CheckDifficulties, times \in CheckDiskTimes :
        LET disk == NewStateFromDisk(times, difficulty)
        IN  /\ state = disk.state
            /\ blockDb = disk.db
            /\ pendingState = StateCopy(disk.state)
            /\ miningDifficulty = difficulty
            /\ pendingTXs = {}
            /\ archivedTXs = {}
            /\ newPendingTXs = 0
            /\ isMining = FALSE
            /\ stopCurrentMining = NoCancel
            /\ cancelled = {}
            /\ miner = [g \in Miners |-> IdleMiner]
            /\ loop = [IdleLoop EXCEPT !.pc = "start"]
            /\ sync = IdleSync
            /\ h = IdleHandler
            /\ replayed = Len(disk.db)
            /\ crashed = FALSE
            /\ InitOther

\* n.CheckDifficulty() of Node.Run
RunCheckDifficulty ==
    /\ loop.pc = "start"
    /\ LET c == CheckDifficulty(miningDifficulty, state, blockDb)
       IN  /\ miningDifficulty' = c.md
           /\ state' = c.state
    /\ loop' = IdleLoop
    /\ UNCHANGED <<blockDb, pendingState, pendingTXs, archivedTXs,
                   newPendingTXs, isMining, stopCurrentMining, cancelled,
                   miner, sync, h, replayed, crashed>>
    /\ UNCHANGED otherVars

NextCheck == RunCheckDifficulty

SpecCheck == InitCheck /\ [][NextCheck]_vars

(***************************************************************************)
(* Properties.                                                             *)
(***************************************************************************)
\* the transactions of the blocks of the block store
CanonicalTXs ==
    {blockDb[i].Value.TXs[k] : <<i, k>> \in
        {ik \in (1..Len(blockDb)) \X (1..Cardinality(TxUniverse)) :
            ik[2] <= Len(blockDb[ik[1]].Value.TXs)}}

\* no block is on its way through sync and the mining loop
PeerBlockHandled == sync.pc = "idle" /\ loop.pc = "select"

\* C1: once a block has been added and, for a peer block, handed to and
\* handled by the mining loop, none of its transactions is pending.
C1_MempoolPurge ==
    PeerBlockHandled =>
        \A tx \in CanonicalTXs : ~InMap(pendingTXs, tx)

\* the attempt of goroutine g is in progress and has found no valid block
AttemptSearching(g) ==
    \/ miner[g].pc \in {"ctx", "pending"}
    \/ /\ miner[g].pc = "mine"
       /\ ~IsBlockHashValid(miner[g].hash, miner[g].pb.difficulty)

\* the context of the attempt of goroutine g exists and is done
AttemptCancelled(g) ==
    miner[g].pc \in {"pending", "mine"} /\ g \in cancelled

\* C2: when the loop has handled a peer block it received while the node
\* was mining, the context of every attempt still searching is cancelled.
C2_PeerBlockCancelsAttempt ==
    [][(loop.pc = "stop" /\ loop'.pc = "select")
         => \A g \in Miners :
               AttemptSearching(g) => AttemptCancelled(g)']_vars

\* C3: between the pruning and the addBlock of a mined-block commit neither
\* add_pending_tx nor the mining loop's pruning nor a test-and-set of
\* is_mining changes the node's shared state (the steps of the sync
\* goroutine are left aside).
C3_Serialized ==
    [][\A g \in Miners :
          (miner[g].pc = "add" /\ miner'[g].pc = "add" /\ sync' = sync)
             => UNCHANGED <<state, blockDb, pendingState, pendingTXs,
                            archivedTXs, isMining>>]_vars

\* C4: the node's mining difficulty and the state's difficulty are at
\* least 1.
C4_DifficultyAtLeastOne ==
    miningDifficulty >= 1 /\ state.miningDifficulty >= 1

\* C5: outside of a commit in progress, every archived transaction is in a
\* block of the block store.
C5_ArchivedAreCanonical ==
    (\A g \in Miners : miner[g].pc # "add")
        => \A tx \in archivedTXs : tx \in CanonicalTXs

\* no two distinct pending transactions have the same sender and nonce
NoDuplicateNonce ==
    \A p, q \in pendingTXs :
        (p.From = q.From /\ p.Nonce = q.Nonce) => p = q

DuplicateNonceError == "TX with same nonce already pending"

\* C6: the mempool never holds two distinct transactions with the same
\* sender and nonce, and a call that returns the duplicate-nonce error
\* leaves the mempool as it was.
C6_NoDuplicateNonce ==
    /\ []NoDuplicateNonce
    /\ [][(h' # h /\ h'.ret = DuplicateNonceError)
            => UNCHANGED pendingTXs]_vars

\* a second transaction with the sender and nonce of the only pending one
\* has been refused
C6_Witness ==
    /\ h.ret = DuplicateNonceError
    /\ ~h.isAlreadyPending
    /\ Cardinality(pendingTXs) = 1
    /\ HasPendingSameNonce(h.tx, pendingTXs)

\* C7: a call for a transaction whose hash is pending or archived changes
\* neither map nor the pending state and sends nothing on newPendingTXs.
C7_KnownTxNotAcceptedAgain ==
    [][(h' # h /\ (h'.isAlreadyPending \/ h'.isArchived))
         => UNCHANGED <<pendingTXs, archivedTXs, pendingState,
                        newPendingTXs>>]_vars

\* an archived transaction has been submitted again
C7_Witness ==
    /\ h.isArchived
    /\ InMap(archivedTXs, h.tx)
    /\ ~h.inserted

\* C8: a call for a pending or archived transaction returns an error, and
\* a call that returns no error has inserted its transaction.
C8_KnownTxReturnsError ==
    /\ (h.isAlreadyPending \/ h.isArchived) => h.ret # "nil"
    /\ (h.pc = "idle" /\ h.ret = "nil") => h.inserted

C10_MinesOnlyNonEmptyMempool ==
    \A g \in Miners :
        miner[g].pc \in {"mine", "mined", "add"} => miner[g].pb.txs # << >>

\* the transactions of a block
BlockTXs(block) == {block.TXs[k] : k \in 1..Len(block.TXs)}

\* C11: when the mining loop has finished with a delivered peer block, be it
\* received while mining or not, none of the block's transactions is
\* pending and those that were pending are archived.
C11_PeerBlockPrunesMempool ==
    [][/\ (sync.pc = "send" /\ sync'.pc = "idle" /\ loop'.pc = "select")
            => \A tx \in BlockTXs(sync.block) :
                  /\ ~InMap(pendingTXs', tx)
                  /\ InMap(pendingTXs, tx) => InMap(archivedTXs', tx)
       /\ (loop.pc = "remove" /\ loop'.pc = "stop")
            => \A tx \in BlockTXs(loop.block) :
                  /\ ~InMap(pendingTXs', tx)
                  /\ InMap(pendingTXs, tx) => InMap(archivedTXs', tx)]_vars

\* C12: the step on which a search with a cancelled context and no valid
\* hash comes back is the return of the cancellation error; it and the
\* setMining(false) that follows leave the block store, the canonical
\* state, the pending state and both maps alone, and nothing panics.
C12_CancelledAttemptChangesNothing ==
    [][\A g \in Miners :
         /\ (/\ miner[g].pc = "mine"
             /\ g \in cancelled
             /\ ~IsBlockHashValid(miner[g].hash, miner[g].pb.difficulty)
             /\ miner'[g] # miner[g])
              => /\ miner'[g] = [IdleMiner EXCEPT !.pc = "done"]
                 /\ UNCHANGED <<state, blockDb, pendingState, pendingTXs,
                                archivedTXs>>
                 /\ ~crashed'
         /\ (miner[g].pc = "done" /\ miner'[g] # miner[g])
              => /\ miner'[g] = IdleMiner
                 /\ ~isMining'
                 /\ UNCHANGED <<state, blockDb, pendingState, pendingTXs,
                                archivedTXs, loop>>]_vars

\* a cancelled search has returned while a transaction is pending
C12_Witness ==
    /\ miner[1].pc = "done"
    /\ 1 \in cancelled
    /\ pendingTXs # {}
    /\ loop.pc = "select"
    /\ ~crashed

\* the latest block of the block store was mined by a peer
PeerOvertook ==
    /\ Len(blockDb) > replayed
    /\ blockDb[Len(blockDb)].Value.Header.Miner = PeerAccount

\* no mining attempt is in progress
NoAttempt == \A g \in Miners : miner[g].pc = "idle"

\* C13: once a peer block has overtaken the local miner and both the loop
\* and the attempt are through, the only transactions that have left the
\* mempool for the archive are transactions of the blocks of the block
\* store: a transaction that was pending and is not in the peer block is
\* still pending.
C13_PeerOvertakeKeepsOthers ==
    (PeerOvertook /\ PeerBlockHandled /\ NoAttempt)
        => \A tx \in archivedTXs : tx \in CanonicalTXs

\* the blocks of the block store are numbered from 1 and each one has the
\* hash of the one before it as its parent
ChainLinked ==
    \A i \in 1..Len(blockDb) :
        /\ blockDb[i].Value.Header.Number = i
        /\ blockDb[i].Key = BlockHash(blockDb[i].Value)
        /\ blockDb[i].Value.Header.Parent =
              (IF i = 1 THEN ZeroHash ELSE blockDb[i - 1].Key)

C15_MinedBlockIsValid ==
    \A g \in Miners :
        miner[g].pc = "mined" =>
            LET pb == miner[g].pb
                block == miner[g].block
            IN  /\ block # ZeroBlock
                /\ block.Header.Parent = pb.parent
                /\ block.Header.Number = pb.number
                /\ block.Header.Time = pb.time
                /\ block.Header.Miner = pb.miner
                /\ block.Header.Difficulty = pb.difficulty
                /\ block.TXs = pb.txs
                /\ IsBlockHashValid(BlockHash(block), pb.difficulty)

\* C16: the step of a search whose context is cancelled is the return of
\* the cancellation error with the empty block, no hash being computed,
\* unless the search had already built a block with a valid hash; this
\* includes the first step of a search called with a cancelled context.
C16_CancelStopsSearch ==
    [][\A g \in Miners :
         (miner[g].pc = "mine" /\ g \in cancelled /\ miner'[g] # miner[g])
            => \/ miner'[g] = [IdleMiner EXCEPT !.pc = "done"]
               \/ /\ miner[g].block # ZeroBlock
                  /\ IsBlockHashValid(BlockHash(miner[g].block),
                                      miner[g].pb.difficulty)
                  /\ miner'[g] = [miner[g] EXCEPT !.pc = "mined"]]_vars

\* the check of Node.Run is taking place and the latest block number is a
\* multiple of BlockNumberToCheckDifficulty
CheckRuns ==
    /\ loop.pc = "start"
    /\ loop'.pc = "select"
    /\ state.latestBlock.Header.Number % BlockNumberToCheckDifficulty = 0

\* the average the check measures
MeasuredAverage == GetAproximateBlockResolutionTime(state, blockDb)

\* C17 as stated: a check at difficulty d gives d+1 for a measured average
\* below MiningAproxTime, d-1 for one above it and d for one equal to it,
\* in the node and in the state.
C17_ThreeWayRule ==
    [][CheckRuns =>
         /\ miningDifficulty' =
               (IF MeasuredAverage < MiningAproxTime THEN miningDifficulty + 1
                ELSE IF MeasuredAverage > MiningAproxTime
                THEN miningDifficulty - 1
                ELSE miningDifficulty)
         /\ state'.miningDifficulty = miningDifficulty']_vars

\* C17 amended: the rule holds for a difficulty of at least 1 and a
\* measured average other than 0; with an average of 0 the difficulty is
\* unchanged, and at difficulty 0 the check fails and changes nothing.
C17_ThreeWayRuleGuarded ==
    [][CheckRuns =>
         IF miningDifficulty = 0
         THEN UNCHANGED <<miningDifficulty, state>>
         ELSE /\ miningDifficulty' =
                    (IF MeasuredAverage = 0 THEN miningDifficulty
                     ELSE IF MeasuredAverage < MiningAproxTime
                     THEN miningDifficulty + 1
                     ELSE IF MeasuredAverage > MiningAproxTime
                     THEN miningDifficulty - 1
                     ELSE miningDifficulty)
              /\ state'.miningDifficulty = miningDifficulty'
              /\ state' = [state EXCEPT !.miningDifficulty = miningDifficulty']]_vars

\* a check has lowered the difficulty the blocks on disk were mined at, and
\* another one has raised it
C17_Witness ==
    /\ loop.pc = "select"
    /\ Len(blockDb) = MaxDiskBlocks
    /\ blockDb[1].Value.Header.Difficulty >= 1
    /\ miningDifficulty = blockDb[1].Value.Header.Difficulty - 1
    /\ state.miningDifficulty = miningDifficulty

\* the header times of consecutive blocks on disk are all g seconds apart
EvenlySpaced(g) ==
    \A i \in 2..Len(blockDb) :
        blockDb[i].Value.Header.Time - blockDb[i - 1].Value.Header.Time = g

\* C18: after the check at a block number that is a multiple of
\* BlockNumberToCheckDifficulty, on a chain longer than that whose blocks are
\* all g seconds apart, the difficulty d the blocks were mined at is d when
\* g is MiningAproxTime, d+1 when g is below it and d-1 when g is above it.
C18_MeanGapDecides ==
    \A g \in DiskGaps :
        (/\ loop.pc = "select"
         /\ Len(blockDb) > BlockNumberToCheckDifficulty
         /\ Len(blockDb) % BlockNumberToCheckDifficulty = 0
         /\ blockDb[1].Value.Header.Difficulty >= 1
         /\ EvenlySpaced(g))
          => LET d == blockDb[1].Value.Header.Difficulty
             IN  miningDifficulty =
                   (IF g * Second < MiningAproxTime THEN d + 1
                    ELSE IF g * Second > MiningAproxTime THEN d - 1
                    ELSE d)

\* the difficulty the node was configured with: the one its first block was
\* mined at, its own while it has no block
ConfiguredDifficulty ==
    IF Len(blockDb) = 0 THEN miningDifficulty
    ELSE blockDb[1].Value.Header.Difficulty

\* the blocks the node has applied, in order
AppliedBlocks == [i \in 1..Len(blockDb) |-> blockDb[i].Value]

\* a second node with the same genesis and the same configured difficulty
\* that is started on the same blocks (New, then Run up to the goroutines)
SecondNode ==
    LET disk == Replay(GenesisState(ConfiguredDifficulty), << >>, AppliedBlocks)
        c == CheckDifficulty(ConfiguredDifficulty, disk.state, disk.db)
    IN  [state |-> c.state, db |-> disk.db, md |-> c.md]

\* (latest_hash, balances, account2nonce, difficulty) of a node
NodeTuple(s, md) ==
    <<s.latestBlockHash, s.Balances, s.Account2Nonce, md>>

AddBlockReturns ==
    \/ \E g \in Miners : miner[g].pc = "add" /\ miner'[g].pc = "done"
    \/ sync.pc = "idle" /\ sync'.pc = "send"

\* C20: when a call of addBlock returns, the pending state is a copy of the
\* state as it then is; any other step that changes the pending state is a
\* call of AddPendingTX, and it leaves the state, the block store and the
\* difficulty as they were.
C20_PendingStateIsCopy ==
    [][/\ AddBlockReturns => pendingState' = StateCopy(state')
       /\ (pendingState' # pendingState /\ ~AddBlockReturns)
            => /\ h' # h
               /\ UNCHANGED <<state, blockDb, miningDifficulty>>]_vars

\* transactions screened against the pending state are still pending and in
\* no block, a block has been added since, and the pending state is the
\* state again
C20_Witness ==
    /\ pendingTXs # {}
    /\ \A tx \in pendingTXs : tx \notin CanonicalTXs
    /\ Len(blockDb) > 0
    /\ pendingState = state

\* the transaction of the call that returns in this step costs more than its
\* sender has in the pending state
CallOverdraws ==
    /\ h' # h
    /\ h'.tx.Sig = h'.tx.From
    /\ h'.tx.From \in Accounts
    /\ ~IsReward(h'.tx)
    /\ h'.tx.Value + TxFee > pendingState.Balances[h'.tx.From]

\* C21: every balance of the pending state is at least 0, and a call of
\* AddPendingTX whose transaction costs more than its sender's pending
\* balance returns an error, leaves the pending state as it was and adds
\* nothing to the mempool.
C21_PendingBalancesNonNegative ==
    /\ [](\A acc \in Accounts : pendingState.Balances[acc] >= 0)
    /\ [][CallOverdraws =>
            /\ h'.ret # "nil"
            /\ ~h'.inserted
            /\ UNCHANGED <<pendingState, pendingTXs>>]_vars

(***************************************************************************)
(* State.AddBlock on blocks of transfers and reward transactions: the      *)
(* state engine alone, nothing of the node running.                        *)
(***************************************************************************)
\* blocks applied on top of genesis
MaxApplyBlocks == 2

\* the second transfer of a, and reward transactions of a and of b
TNext == NewSignedTx("a", "b", 1, 2, "", "a")
RewardA == NewSignedTx("a", "a", 2, 1, "reward", "a")
RewardB == NewSignedTx("b", "b", 1, 1, "reward", "b")

ApplyTxUniverse == {T1, T2, TNext, TPoor, TForged, RewardA, RewardB}

\* the transaction lists of the blocks: at most two transactions
ApplyTxLists ==
    {<< >>} \cup {<<tx>> : tx \in ApplyTxUniverse}
            \cup {<<t, u>> : t \in ApplyTxUniverse, u \in ApplyTxUniverse}

InitApply ==
    /\ state = GenesisState(DefaultMiningDifficulty)
    /\ blockDb = << >>
    /\ pendingState = StateCopy(GenesisState(DefaultMiningDifficulty))
    /\ miningDifficulty = DefaultMiningDifficulty
    /\ pendingTXs = {}
    /\ archivedTXs = {}
    /\ newPendingTXs = 0
    /\ isMining = FALSE
    /\ stopCurrentMining = NoCancel
    /\ cancelled = {}
    /\ miner = [g \in Miners |-> IdleMiner]
    /\ loop = IdleLoop
    /\ sync = IdleSync
    /\ h = IdleHandler
    /\ replayed = 0
    /\ crashed = FALSE
    /\ InitOther

\* State.AddBlock of a block with a valid header and any of the lists
ApplyBlock ==
    /\ Len(blockDb) < MaxApplyBlocks
    /\ \E txs \in ApplyTxLists, time \in Now(state) :
          LET block == NewBlock(state.latestBlockHash, NextBlockNumber(state),
                                PoWNonce(state.latestBlockHash,
                                         NextBlockNumber(state), time,
                                         PeerAccount, state.miningDifficulty,
                                         txs),
                                time, PeerAccount, state.miningDifficulty, txs)
              r == StateAddBlock(state, blockDb, block)
          IN  /\ state' = r.state
              /\ blockDb' = r.db
    /\ UNCHANGED <<pendingState, pendingTXs, archivedTXs, newPendingTXs,
                   miningDifficulty, isMining, stopCurrentMining, cancelled,
                   miner, loop, sync, h, replayed, crashed>>
    /\ UNCHANGED otherVars

NextApply == ApplyBlock

SpecApply == InitApply /\ [][NextApply]_vars

RECURSIVE SumBalances(_, _)
SumBalances(balances, accs) ==
    IF accs = {} THEN 0
    ELSE LET acc == CHOOSE x \in accs : TRUE
         IN  balances[acc] + SumBalances(balances, accs \ {acc})

RECURSIVE NonRewardCount(_)
NonRewardCount(txs) ==
    IF txs = << >> THEN 0
    ELSE (IF IsReward(Head(txs)) THEN 0 ELSE 1) + NonRewardCount(Tail(txs))

RECURSIVE RewardValue(_)
RewardValue(txs) ==
    IF txs = << >> THEN 0
    ELSE (IF IsReward(Head(txs)) THEN Head(txs).Value ELSE 0)
           + RewardValue(Tail(txs))

\* a block is applied in this step
BlockApplied == Len(blockDb') = Len(blockDb) + 1

\* C22 as stated: the sum of the balances after a block is applied is the
\* sum before minus TxFee for each of its transactions that is not a reward.
C22_SumMinusFees ==
    [][BlockApplied =>
         SumBalances(state'.Balances, Accounts)
           = SumBalances(state.Balances, Accounts)
               - TxFee * NonRewardCount(state'.latestBlock.TXs)]_vars

\* C22 amended: the sum after is the sum before, minus TxFee for each
\* transaction that is not a reward, plus the value of each reward.
C22_SumMinusFeesPlusRewards ==
    [][BlockApplied =>
         SumBalances(state'.Balances, Accounts)
           = SumBalances(state.Balances, Accounts)
               - TxFee * NonRewardCount(state'.latestBlock.TXs)
               + RewardValue(state'.latestBlock.TXs)]_vars

\* a block of a transfer and a reward has been applied
C22_Witness ==
    /\ Len(blockDb) >= 1
    /\ state.latestBlock.TXs = <<T1, RewardB>>
    /\ SumBalances(state.Balances, Accounts)
         = SumBalances(GenesisBalances, Accounts) - TxFee + RewardB.Value

(***************************************************************************)
(* The peer table under calls of AddPeer and RemovePeer.                   *)
(***************************************************************************)
InitPeers == InitNode(DefaultMiningDifficulty, << >>)

\* addPeerHandler
AddPeerCall(ip, portRaw, minerRaw) ==
    /\ LET port == ParseUint(portRaw)
           peer == NewPeerNode(ip, port.val, FALSE, minerRaw, TRUE, "v")
       IN  IF port.err # ""
           THEN /\ peerCall' = [op |-> "add", peer |-> peer, err |-> port.err]
                /\ UNCHANGED knownPeers
           ELSE /\ knownPeers' = AddPeer(knownPeers, peer)
                /\ peerCall' = [op |-> "add", peer |-> peer, err |-> ""]
    /\ UNCHANGED <<nodeVars, stopCurrentMining, cancelled, miner, loop, sync,
                   h, replayed, crashed, genesis, ctxDone>>

\* RemovePeer, for any peer
RemovePeerCall(peer) ==
    /\ knownPeers' = RemovePeer(knownPeers, peer)
    /\ peerCall' = [op |-> "remove", peer |-> peer, err |-> ""]
    /\ UNCHANGED <<nodeVars, stopCurrentMining, cancelled, miner, loop, sync,
                   h, replayed, crashed, genesis, ctxDone>>

AddPeerAny ==
    \E ip \in PeerIPs, portRaw \in PeerPortsRaw,
       minerRaw \in {MinerAccount, PeerAccount} :
        AddPeerCall(ip, portRaw, minerRaw)

RemovePeerAny == \E peer \in PeerUniverse : RemovePeerCall(peer)

NextPeers == AddPeerAny \/ RemovePeerAny

SpecPeers == InitPeers /\ [][NextPeers]_vars

\* q has the ip and the port of p
SameIPPort(p, q) == p.IP = q.IP /\ p.Port = q.Port

\* C23: a peer is known exactly when it has the ip and port of the node or
\* of an entry of the peer table, which holds one entry for an ip and port;
\* after AddPeer(p) every peer with p's ip and port is known, after
\* RemovePeer(p) such a peer is known only if it has the node's ip and
\* port, and a peer with the node's ip and port is always known.
C23_KnownPeers ==
    /\ \A q \in PeerUniverse :
          IsKnownPeer(knownPeers, OwnInfo, q)
            <=> \/ SameIPPort(OwnInfo, q)
                \/ \E k \in DOMAIN knownPeers : SameIPPort(knownPeers[k], q)
    /\ \A k, l \in DOMAIN knownPeers :
          SameIPPort(knownPeers[k], knownPeers[l]) => k = l
    /\ (peerCall.op = "add" /\ peerCall.err = "")
          => \A q \in PeerUniverse :
                SameIPPort(peerCall.peer, q)
                  => IsKnownPeer(knownPeers, OwnInfo, q)
    /\ peerCall.op = "remove"
          => \A q \in PeerUniverse :
                SameIPPort(peerCall.peer, q)
                  => (IsKnownPeer(knownPeers, OwnInfo, q)
                        <=> SameIPPort(OwnInfo, q))
    /\ \A q \in PeerUniverse :
          SameIPPort(OwnInfo, q) => IsKnownPeer(knownPeers, OwnInfo, q)

\* a peer that was in the table has been removed, the node's own address
\* is not in the table, and another peer is
C23_Witness ==
    /\ peerCall.op = "remove"
    /\ SameIPPort(peerCall.peer, OwnInfo)
    /\ TcpAddress(OwnInfo) \notin DOMAIN knownPeers
    /\ \E k \in DOMAIN knownPeers : knownPeers[k].IP = "h:8"
    /\ IsKnownPeer(knownPeers, OwnInfo, peerCall.peer)

(***************************************************************************)
(* The mempool under transactions of two senders with two nonces each, and *)
(* the snapshot the first attempt takes of it.                             *)
(***************************************************************************)
TB1 == NewSignedTx("b", "a", 1, 1, "", "b")
TB2 == NewSignedTx("b", "a", 1, 2, "", "b")

MempoolTxUniverse == {T1, T2, TNext, TB1, TB2, TPoor}

AddPendingTXOfTwo == \E tx \in MempoolTxUniverse : AddPendingTX_Call(tx)

InitMempool == InitNode(DefaultMiningDifficulty, << >>)

NextMempool ==
    \/ AddPendingTXOfTwo
    \/ Tick
    \/ MinerSet
    \/ MinerCtx
    \/ MinerPending

SpecMempool == InitMempool /\ [][NextMempool]_vars

\* the transactions of each sender are in strictly ascending nonce order
AscendingPerSender(txs) ==
    \A i, j \in 1..Len(txs) :
        (i < j /\ txs[i].From = txs[j].From) => txs[i].Nonce < txs[j].Nonce

\* txs holds exactly the transactions of pending, each once
ExactlyOnce(txs, pending) ==
    /\ Len(txs) = Cardinality(pending)
    /\ \A tx \in pending : \E i \in 1..Len(txs) : txs[i] = tx
    /\ \A i \in 1..Len(txs) : txs[i] \in pending

\* C24: every snapshot getPendingTXsAsArray can return of the mempool, and
\* the one a candidate block was built from, has the transactions of each
\* sender in strictly ascending nonce order and holds exactly the pending
\* transactions, each once.
C24_SnapshotSortedAndComplete ==
    /\ [](\A txs \in PendingTXsAsArrays(pendingTXs) :
             AscendingPerSender(txs) /\ ExactlyOnce(txs, pendingTXs))
    /\ [][\A g \in Miners :
             (miner[g].pc = "pending" /\ miner'[g].pc = "mine")
               => /\ AscendingPerSender(miner'[g].pb.txs)
                  /\ ExactlyOnce(miner'[g].pb.txs, pendingTXs)]_vars

\* a candidate block holds two transactions of each of two senders
C24_Witness ==
    /\ miner[1].pc = "mine"
    /\ Len(miner[1].pb.txs) = 4
    /\ pendingTXs = {T1, TNext, TB1, TB2}

\* C25: two snapshots of the same mempool are the same sequence.
C25_SnapshotStable ==
    \A txs1, txs2 \in PendingTXsAsArrays(pendingTXs) : txs1 = txs2

(***************************************************************************)
(* loadGenesis on the documents a genesis file can hold.                   *)
(***************************************************************************)
\* the node as New leaves it, before NewStateFromDisk has read the file
InitGenesis ==
    /\ \E doc \in GenesisDocs :
          genesis = [pc |-> "start", doc |-> doc,
                     ret |-> [genesis |-> ZeroGenesis, err |-> ""]]
    /\ state = [GenesisState(DefaultMiningDifficulty)
                  EXCEPT !.Balances = [acc \in Accounts |-> 0]]
    /\ blockDb = << >>
    /\ pendingState = state
    /\ miningDifficulty = DefaultMiningDifficulty
    /\ pendingTXs = {}
    /\ archivedTXs = {}
    /\ newPendingTXs = 0
    /\ isMining = FALSE
    /\ stopCurrentMining = NoCancel
    /\ cancelled = {}
    /\ miner = [g \in Miners |-> IdleMiner]
    /\ loop = IdleLoop
    /\ sync = IdleSync
    /\ h = IdleHandler
    /\ replayed = 0
    /\ crashed = FALSE
    /\ knownPeers = AddPeer(NoPeers, Bootstrap)
    /\ peerCall = IdlePeerCall
    /\ ctxDone = FALSE

LoadGenesis ==
    /\ genesis.pc = "start"
    /\ genesis' = [genesis EXCEPT !.pc = "loaded",
                                  !.ret = loadGenesis(genesis.doc)]
    /\ UNCHANGED <<nodeVars, stopCurrentMining, cancelled, miner, loop, sync,
                   h, replayed, crashed, knownPeers, peerCall, ctxDone>>

NextGenesis == LoadGenesis

SpecGenesis == InitGenesis /\ [][NextGenesis]_vars

\* the document is an object with a balances map of non-negative integers
GoodGenesisDoc(doc) ==
    /\ doc.readable
    /\ doc.wellFormed
    /\ doc.hasBalances
    /\ \A a \in DOMAIN doc.balances : doc.balances[a] >= 0

\* C27: loadGenesis returns an error and the empty Genesis for a file that
\* cannot be read or parsed, that has a negative balance or that has no
\* balances map, and returns without error, with the balances of the
\* document, only for a document with a balances map of non-negative
\* integers.
C27_GenesisErrors ==
    genesis.pc = "loaded"
      => IF GoodGenesisDoc(genesis.doc)
         THEN /\ genesis.ret.err = ""
              /\ genesis.ret.genesis
                   = [Balances |-> genesis.doc.balances, isNil |-> FALSE]
         ELSE /\ genesis.ret.err # ""
              /\ genesis.ret.genesis = ZeroGenesis

\* C28: a step changes the node's mining difficulty or the state's
\* difficulty only by adding a block whose number is a multiple of
\* BlockNumberToCheckDifficulty; adding a block with another number, and an
\* addBlock that fails, leave both as they were.
C28_DifficultyChangesOnlyAtCheck ==
    [][(\/ miningDifficulty' # miningDifficulty
        \/ state'.miningDifficulty # state.miningDifficulty)
         => /\ Len(blockDb') = Len(blockDb) + 1
            /\ state'.latestBlock.Header.Number
                 % BlockNumberToCheckDifficulty = 0]_vars

\* a block whose number is no multiple has been added to a chain on which
\* a check would have found the blocks too fast, and the difficulty is
\* still the one the startup check set
C28_Witness ==
    /\ Len(blockDb) > replayed
    /\ state.latestBlock.Header.Number % BlockNumberToCheckDifficulty # 0
    /\ GetAproximateBlockResolutionTime(state, blockDb) # 0
    /\ GetAproximateBlockResolutionTime(state, blockDb) < MiningAproxTime
    /\ miningDifficulty = ConfiguredDifficulty + 1
    /\ state.miningDifficulty = miningDifficulty

(***************************************************************************)
(* The goroutines of two ticks, interleaved.                               *)
(***************************************************************************)
TickOfAny == \E g \in Miners : TickIsMining(g)
SetMiningOfAny == \E g \in Miners : MinerSetMining(g)
WithCancelOfAny == \E g \in Miners : MinerWithCancel(g)
NewPendingBlockOfAny == \E g \in Miners : MinerNewPendingBlock(g)
MineOfAny == \E g \in Miners : MinerMine(g)
RemoveMinedOfAny == \E g \in Miners : MinerRemoveMined(g)
AddBlockOfAny == \E g \in Miners : MinerAddBlock(g)
ClearMiningOfAny == \E g \in Miners : MinerClearMining(g)

InitRace == InitNode(DefaultMiningDifficulty, << >>)

NextRace ==
    \/ TickOfAny
    \/ SetMiningOfAny
    \/ WithCancelOfAny
    \/ NewPendingBlockOfAny
    \/ MineOfAny
    \/ RemoveMinedOfAny
    \/ AddBlockOfAny
    \/ ClearMiningOfAny

SpecRace == InitRace /\ [][NextRace]_vars

\* the goroutine is inside minePendingTXs
InMinePendingTXs(g) == miner[g].pc \in {"pending", "mine", "mined", "add"}

\* C29: at most one goroutine is inside minePendingTXs, and the shared
\* cancel function is the one of that goroutine's context.
C29_OneAttempt ==
    \A g1, g2 \in Miners :
        InMinePendingTXs(g1)
          => /\ InMinePendingTXs(g2) => g1 = g2
             /\ stopCurrentMining = g1

(***************************************************************************)
(* The node until and after the context of Node.Run is cancelled, the      *)
(* goroutines being scheduled fairly.                                      *)
(***************************************************************************)
\* the context given to Node.Run is cancelled
CancelRun ==
    /\ ~crashed
    /\ ~ctxDone
    /\ ctxDone' = TRUE
    /\ UNCHANGED <<nodeVars, stopCurrentMining, cancelled, miner, loop, sync,
                   h, replayed, crashed, knownPeers, peerCall, genesis>>

\* case <-ctx.Done(): ticker.Stop() and the return of Node.mine
LoopCtxDone ==
    /\ ~crashed
    /\ loop.pc = "select"
    /\ ctxDone
    /\ loop' = [IdleLoop EXCEPT !.pc = "stopped"]
    /\ UNCHANGED <<nodeVars, stopCurrentMining, cancelled, miner, sync, h,
                   replayed, crashed, otherVars>>

InitLive == InitNode(DefaultMiningDifficulty, << >>)

NextLive ==
    \/ Tick
    \/ ReceiveSyncedBlock
    \/ LoopRemoveMined
    \/ LoopStopCurrentMining
    \/ LoopCtxDone
    \/ MinerSet
    \/ MinerCtx
    \/ MinerPending
    \/ MinerSearch
    \/ MinerRemove
    \/ MinerAdd
    \/ MinerClear
    \/ SyncBlock
    \/ CancelRun

\* a goroutine that can take a step takes it; ticks, peer blocks and the
\* cancellation are up to the environment
FairLive ==
    /\ WF_vars(ReceiveSyncedBlock)
    /\ WF_vars(LoopRemoveMined)
    /\ WF_vars(LoopStopCurrentMining)
    /\ WF_vars(LoopCtxDone)
    /\ WF_vars(MinerSet)
    /\ WF_vars(MinerCtx)
    /\ WF_vars(MinerPending)
    /\ WF_vars(MinerSearch)
    /\ WF_vars(MinerRemove)
    /\ WF_vars(MinerAdd)
    /\ WF_vars(MinerClear)

SpecLive == InitLive /\ [][NextLive]_vars /\ FairLive

\* the search of goroutine g is going on: no valid hash has been found
Searching(g) ==
    /\ miner[g].pc = "mine"
    /\ ~IsBlockHashValid(miner[g].hash, miner[g].pb.difficulty)

\* C26: once the context of Run is done the mining loop eventually returns;
\* after it has returned no goroutine starts an attempt; a search that is
\* going on when the context is done ends with the cancellation error at
\* its next iteration, and the attempt then ends without a block being
\* added.
C26_ShutdownStopsMining ==
    /\ ctxDone ~> (loop.pc = "stopped")
    /\ [][loop.pc = "stopped"
            => /\ loop'.pc = "stopped"
               /\ \A g \in Miners :
                     miner[g].pc = "idle" => miner'[g].pc = "idle"]_vars
    /\ [][\A g \in Miners :
            (ctxDone /\ Searching(g) /\ miner'[g] # miner[g])
              => /\ miner'[g].pc = "done"
                 /\ blockDb' = blockDb]_vars
    /\ [][\A g \in Miners :
            (miner[g].pc = "done" /\ miner'[g] # miner[g])
              => /\ miner'[g].pc = "idle"
                 /\ blockDb' = blockDb]_vars

\* C30: whenever is_mining is set it is eventually cleared.
C30_MiningFlagCleared == isMining ~> ~isMining

(***************************************************************************)
(* The pending state and the mempool.                                      *)
(***************************************************************************)
\* no call of addBlock is half-way: no mined block waits between its
\* pruning and addBlock, no peer block waits for the mining loop
BetweenOperations ==
    /\ \A g \in Miners : miner[g].pc # "add"
    /\ PeerBlockHandled

\* s is the state with the transactions txs applied one after the other
\* and without an error, as far as balances and nonces go
AccountsFor(s, txs) ==
    LET r == ApplyTXs(txs, state)
    IN  /\ r.err = ""
        /\ s.Balances = r.state.Balances
        /\ s.Account2Nonce = r.state.Account2Nonce

\* C31: between operations the pending state has the balances and the
\* nonces of the state with every pending transaction applied in nonce
\* order, also after a block has been added while transactions are pending.
C31_PendingStateAccountsForMempool ==
    BetweenOperations =>
        \E txs \in PendingTXsAsArrays(pendingTXs) :
            AccountsFor(pendingState, txs)

\* C32: no transaction hash is a key of both the pending and the archived
\* map, whatever calls of AddPendingTX, commits of mined blocks and
\* deliveries of peer blocks came before.
C32_PendingArchivedDisjoint ==
    \A p \in pendingTXs : ~InMap(archivedTXs, p)

\* a block has been added, a transaction is archived, another one is
\* pending, and the archived one has been submitted again
C32_Witness ==
    /\ Len(blockDb) > 0
    /\ archivedTXs # {}
    /\ pendingTXs # {}
    /\ h.isArchived

\* C33: once Run has started the goroutines, the node's mining difficulty
\* (the difficulty of the next pending block) and the state's difficulty
\* (the one blocks are checked against) are equal.
C33_DifficultiesEqual ==
    miningDifficulty = state.miningDifficulty

\* a block added after startup had a number at which the difficulty is
\* checked, and the check has changed the difficulty it was mined at
C33_Witness ==
    /\ Len(blockDb) > replayed
    /\ state.latestBlock.Header.Number % BlockNumberToCheckDifficulty = 0
    /\ miningDifficulty # state.latestBlock.Header.Difficulty
    /\ state.miningDifficulty = miningDifficulty

(***************************************************************************)
(* The ingress under more accepted transactions than n.newPendingTXs       *)
(* holds.  Nothing in the node receives from the channel: the mining loop  *)
(* selects on the ticker, on newSyncedBlocks and on ctx.Done() only.       *)
(***************************************************************************)
\* the third transfer of a
TA3 == NewSignedTx("a", "b", 1, 3, "", "a")

IngressTxUniverse == {T1, TNext, TA3, TB1, TB2}

AddPendingTXOfIngress == \E tx \in IngressTxUniverse : AddPendingTX_Call(tx)

InitIngress == InitNode(DefaultMiningDifficulty, << >>)

NextIngress ==
    \/ AddPendingTXOfIngress
    \/ Tick
    \/ MinerSet
    \/ MinerCtx
    \/ MinerPending
    \/ MinerSearch
    \/ MinerRemove
    \/ MinerAdd
    \/ MinerClear

\* the goroutines of the node are scheduled; requests come as they please
FairIngress ==
    /\ WF_vars(MinerSet)
    /\ WF_vars(MinerCtx)
    /\ WF_vars(MinerPending)
    /\ WF_vars(MinerSearch)
    /\ WF_vars(MinerRemove)
    /\ WF_vars(MinerAdd)
    /\ WF_vars(MinerClear)

SpecIngress == InitIngress /\ [][NextIngress]_vars /\ FairIngress

\* the call of AddPendingTX is at n.newPendingTXs <- tx and the buffer is
\* full
BlockedOnSend == h.pc = "send"

\* C34: a call of AddPendingTX that has reached the send on newPendingTXs
\* returns, however many transactions were accepted before it.
C34_AddPendingTXReturns == BlockedOnSend ~> (h.pc = "idle")

(***************************************************************************)
(* The order of the proof-of-work search.                                  *)
(***************************************************************************)
\* the block of the pending block pb with the nonce n
Candidate(pb, n) ==
    NewBlock(pb.parent, pb.number, n, pb.time, pb.miner, pb.difficulty, pb.txs)

\* the nonce n gives the pending block pb a valid hash
ValidNonce(pb, n) ==
    IsBlockHashValid(BlockHash(Candidate(pb, n)), pb.difficulty)

\* goroutine g makes one more attempt in this step
Attempts(g) ==
    miner[g].pc = "mine" /\ miner'[g].pc = "mine" /\ miner'[g] # miner[g]

\* C35: the first attempt of a search uses the nonce 0 and every further
\* attempt the nonce after the one before it, as a counter of the width of
\* the nonce; the block a successful search returns is the pending block
\* with the first nonce in that order that gives a valid hash, hence a
\* function of the pending block.
C35_SearchInNonceOrder ==
    /\ [][\A g \in Miners :
            Attempts(g) =>
              /\ miner'[g].block.Header.Nonce =
                   (IF miner[g].block = ZeroBlock THEN 0
                    ELSE (miner[g].block.Header.Nonce + 1) % NonceSpace)
              /\ miner'[g].block =
                   Candidate(miner[g].pb, miner'[g].block.Header.Nonce)]_vars
    /\ [](\A g \in Miners :
            miner[g].pc = "mined" =>
              \E n \in 0..(NonceSpace - 1) :
                 /\ miner[g].block = Candidate(miner[g].pb, n)
                 /\ ValidNonce(miner[g].pb, n)
                 /\ \A k \in 0..(n - 1) : ~ValidNonce(miner[g].pb, k))

====
